---- MODULE Spec2Model ----
(***************************************************************************)
(* Model of cargo/cargo.py (class Cargo): construction of the dependency   *)
(* multigraph from the SDG document (json2nx), the four seeding strategies *)
(* (_assign_init_labels_via_...) and weighted label propagation           *)
(* (_propogate_labels).                                                    *)
(*                                                                         *)
(* Encodings.  A node id is a dotted string; it is kept as the sequence of *)
(* its dot-separated segments, each segment coded by a natural number (the *)
(* k-th letter), so that "a.b.C.m" is <<1, 2, 3, 13>>.  The empty string   *)
(* is <<>>.  An edge weight is a decimal number kept in tenths (25 is 2.5).*)
(* None is coded by -1; every label the modelled inputs produce is >= 0.   *)
(***************************************************************************)
EXTENDS Integers, Sequences, FiniteSets, TLC

VARIABLES json_graph, nodes_dict, SDG, partition,
          init_labels, max_part, labels_file,
          pc, nodes, idx, changes, passes, calls, seeded, returned

vars == <<json_graph, nodes_dict, SDG, partition, init_labels, max_part,
          labels_file, pc, nodes, idx, changes, passes, calls, seeded, returned>>

(***************************************************************************)
(* Bounds of the model.                                                    *)
(***************************************************************************)
MaxPasses == 6
MaxCalls == 2

(***************************************************************************)
(* Values.                                                                 *)
(***************************************************************************)
None == -1
Absent == "absent"
NoClass == "None"

Range(s) == {s[i] : i \in DOMAIN s}

Max2(a, b) == IF a >= b THEN a ELSE b

(***************************************************************************)
(* The graph: nodes in insertion order, attributes per node, and the edges *)
(* in insertion order (parallel edges are kept, key k = k-th edge of the   *)
(* ordered pair).                                                          *)
(***************************************************************************)
EmptyGraph == [nodes |-> <<>>, attr |-> <<>>, edges |-> <<>>]

NodeAttr(rec) == [class |-> rec.class, type |-> rec.type]

\* dict.update: keys of the new record override, other keys stay
UpdateAttr(old, new) ==
    [class |-> IF new.class = NoClass THEN old.class ELSE new.class,
     type  |-> IF new.type = Absent THEN old.type ELSE new.type]

HasNode(G, n) == n \in Range(G.nodes)

\* MultiDiGraph.add_node(n, **attr)
add_node(G, n, attr) ==
    IF HasNode(G, n)
    THEN [G EXCEPT !.attr = [m \in DOMAIN G.attr |->
                                IF m = n THEN UpdateAttr(G.attr[m], attr) ELSE G.attr[m]]]
    ELSE [G EXCEPT !.nodes = Append(G.nodes, n),
                   !.attr = [m \in DOMAIN G.attr \cup {n} |->
                                IF m = n THEN attr ELSE G.attr[m]]]

\* MultiDiGraph.add_edge(u, v, weight=w): endpoints not in the graph are created
add_edge(G, u, v, w) ==
    LET none == [class |-> NoClass, type |-> Absent]
        G1 == IF HasNode(G, u) THEN G ELSE add_node(G, u, none)
        G2 == IF HasNode(G1, v) THEN G1 ELSE add_node(G1, v, none)
    IN [G2 EXCEPT !.edges = Append(G2.edges, [source |-> u, target |-> v, weight |-> w])]

\* itertools.groupby(records, key=id): the first record of every maximal run
\* of consecutive records with the same id
RECURSIVE GroupHeads(_)
GroupHeads(recs) ==
    IF recs = <<>> THEN <<>>
    ELSE LET rest == GroupHeads(Tail(recs))
         IN IF Len(recs) >= 2 /\ recs[2].id = recs[1].id
            THEN <<recs[1]>> \o Tail(rest)
            ELSE <<recs[1]>> \o rest

RECURSIVE PopulateNodes(_, _, _)
PopulateNodes(heads, G, dict) ==
    IF heads = <<>> THEN [G |-> G, dict |-> dict]
    ELSE LET node_attr == heads[1]
             key == node_attr.id
         IN PopulateNodes(Tail(heads),
                          add_node(G, key, NodeAttr(node_attr)),
                          [k \in DOMAIN dict \cup {key} |->
                              IF k = key THEN node_attr ELSE dict[k]])

RECURSIVE PopulateEdges(_, _)
PopulateEdges(links, G) ==
    IF links = <<>> THEN G
    ELSE LET edge == links[1]
         IN IF edge.source = edge.target
            THEN PopulateEdges(Tail(links), G)
            ELSE PopulateEdges(Tail(links),
                               add_edge(G, edge.source, edge.target, edge.weight))

\* Cargo.json2nx: the graph and nodes_dict built from the document
json2nx(doc) ==
    LET pn == PopulateNodes(GroupHeads(doc.nodes), EmptyGraph, <<>>)
    IN [SDG |-> PopulateEdges(doc.links, pn.G), nodes_dict |-> pn.dict]

(***************************************************************************)
(* Seeding.  draws[i] is the value random.randint(1, max_part) returns for *)
(* the i-th node of the enumeration (i from 1).                            *)
(***************************************************************************)
\* position of node n in the enumeration of SDG.nodes, from 0
IndexOf(G, n) == (CHOOSE i \in DOMAIN G.nodes : G.nodes[i] = n) - 1

partition_value(G, mp, draws, n) ==
    IF mp < 2 THEN IndexOf(G, n) ELSE draws[IndexOf(G, n) + 1]

\* Cargo._assign_init_labels_via_random_methods
random_methods(G, mp, draws) ==
    [n \in Range(G.nodes) |-> partition_value(G, mp, draws, n)]

\* variant: with max_part < 2 hand over to random_methods
random_classes_fallback(G, mp, draws) ==
    IF mp < 2 THEN random_methods(G, mp, draws)
    ELSE LET first(c) == G.nodes[CHOOSE i \in DOMAIN G.nodes :
                                    /\ G.attr[G.nodes[i]].class = c
                                    /\ \A j \in 1..(i - 1) : G.attr[G.nodes[j]].class # c]
         IN [n \in Range(G.nodes) |-> draws[IndexOf(G, first(G.attr[n].class)) + 1]]

\* Cargo._assign_init_labels_via_random_classes
random_classes(G, mp, draws) ==
    LET first(c) == G.nodes[CHOOSE i \in DOMAIN G.nodes :
                               /\ G.attr[G.nodes[i]].class = c
                               /\ \A j \in 1..(i - 1) : G.attr[G.nodes[j]].class # c]
        class_partition_map == [c \in {G.attr[n].class : n \in Range(G.nodes)} |->
                                   partition_value(G, mp, draws, first(c))]
    IN [n \in Range(G.nodes) |-> class_partition_map[G.attr[n].class]]

\* Cargo._assign_init_labels_via_file, class_partition_map loaded from the file
via_file(G, mp, class_partition_map, draws) ==
    [n \in Range(G.nodes) |->
        IF G.attr[n].class \notin DOMAIN class_partition_map
        THEN partition_value(G, mp, draws, n)
        ELSE class_partition_map[G.attr[n].class]]

\* ".".join(node.split(".")[:-2])
package_name(node) == IF Len(node) <= 2 THEN <<>> ELSE SubSeq(node, 1, Len(node) - 2)

\* len(package_name.split(".")): "".split(".") is [""], of length 1
level_depth(pack) == IF pack = <<>> THEN 1 ELSE Len(pack)

\* keys of packages_depth in insertion order: packages by first appearance
RECURSIVE packages_depth(_, _)
packages_depth(ns, acc) ==
    IF ns = <<>> THEN acc
    ELSE LET p == package_name(ns[1])
         IN packages_depth(Tail(ns), IF p \in Range(acc) THEN acc ELSE Append(acc, p))

level_depth_frequency(packs, d) ==
    Cardinality({i \in DOMAIN packs : level_depth(packs[i]) = d})

\* the shallowest level with at least max_part - 1 packages, or -1
initial_level_to_labels(packs, mp) ==
    LET levels == {level_depth(packs[i]) : i \in DOMAIN packs}
        ok == {d \in levels : level_depth_frequency(packs, d) >= mp - 1}
    IN IF ok = {} THEN -1 ELSE CHOOSE d \in ok : \A e \in ok : d <= e

\* p sorts before q as a dotted string (segments are single letters)
LexLess(p, q) ==
    \E k \in 1..(Len(p) + 1) :
        /\ \A j \in 1..(k - 1) : j <= Len(q) /\ p[j] = q[j]
        /\ k <= Len(q)
        /\ (k <= Len(p) => p[k] < q[k])

\* variant: packages of one depth in ascending name order
RECURSIVE SortedByDepthAndName(_, _, _)
SortedByDepthAndName(packs, d, maxd) ==
    IF d > maxd THEN <<>>
    ELSE LET at == {packs[i] : i \in {j \in DOMAIN packs : level_depth(packs[j]) = d}}
         IN [k \in 1..Cardinality(at) |->
                CHOOSE p \in at : Cardinality({q \in at : LexLess(q, p)}) = k - 1]
            \o SortedByDepthAndName(packs, d + 1, maxd)

\* sorted(packages_depth.items(), key=depth): stable, ties keep insertion order
RECURSIVE SortedByDepth(_, _, _)
SortedByDepth(packs, d, maxd) ==
    IF d > maxd THEN <<>>
    ELSE LET atd(p) == level_depth(p) = d
         IN SelectSeq(packs, atd) \o SortedByDepth(packs, d + 1, maxd)

PyMod(a, b) == IF b > 0 THEN a % b ELSE -((-a) % (-b))

SetKey(f, k, v) == [x \in DOMAIN f \cup {k} |-> IF x = k THEN v ELSE f[x]]

\* the loop over the sorted packages; st = [packages, counter, raised]
RECURSIVE AssignPackages(_, _, _, _)
AssignPackages(packs, level, mp, st) ==
    IF packs = <<>> \/ st.raised THEN st
    ELSE
      LET pack == packs[1]
          rest == Tail(packs)
          bump == IF st.counter + 1 >= mp - 1 THEN 0 ELSE st.counter + 1
          prefix == SubSeq(pack, 1, Len(pack) - 1)
          root == SubSeq(pack, 1, level)
      IN IF level_depth(pack) < level
         THEN AssignPackages(rest, level, mp,
                  [st EXCEPT !.packages = SetKey(st.packages, pack, mp - 1)])
         ELSE IF level_depth(pack) = level
         THEN IF mp - 1 = 0
              THEN [st EXCEPT !.raised = TRUE]
              ELSE AssignPackages(rest, level, mp,
                      [st EXCEPT !.packages = SetKey(st.packages, pack,
                                                     PyMod(st.counter, mp - 1)),
                                 !.counter = bump])
         ELSE IF prefix \in DOMAIN st.packages
         THEN AssignPackages(rest, level, mp,
                  [st EXCEPT !.packages = SetKey(st.packages, pack, st.packages[prefix])])
         ELSE IF root \in DOMAIN st.packages
         THEN AssignPackages(rest, level, mp,
                  [st EXCEPT !.packages = SetKey(st.packages, pack, st.packages[root])])
         ELSE IF mp - 1 = 0
         THEN [st EXCEPT !.raised = TRUE]
         ELSE AssignPackages(rest, level, mp,
                  [st EXCEPT !.packages = SetKey(SetKey(st.packages, pack,
                                                        PyMod(st.counter, mp - 1)),
                                                 root, PyMod(st.counter, mp - 1)),
                             !.counter = bump])

MaxDepthOf(packs) ==
    IF packs = <<>> THEN 0
    ELSE CHOOSE d \in {level_depth(packs[i]) : i \in DOMAIN packs} :
            \A i \in DOMAIN packs : level_depth(packs[i]) <= d

\* the packages dict of the hierarchical branch (lines 172-199)
PackagesOf(G, mp) ==
    LET packs == packages_depth(G.nodes, <<>>)
        level == initial_level_to_labels(packs, mp)
    IN AssignPackages(SortedByDepth(packs, 1, MaxDepthOf(packs)), level, mp,
                      [packages |-> <<>>, counter |-> 0, raised |-> FALSE])

\* TRUE when the hierarchical branch is taken and completes without raising
Hierarchical(G, mp) ==
    LET packs == packages_depth(G.nodes, <<>>)
    IN /\ ~(Len(packs) < mp)
       /\ initial_level_to_labels(packs, mp) # -1
       /\ ~PackagesOf(G, mp).raised

\* Cargo._assign_init_labels_via_package_names
package_names(G, mp, draws) ==
    IF Hierarchical(G, mp)
    THEN LET packages == PackagesOf(G, mp).packages
         IN [n \in Range(G.nodes) |->
                IF package_name(n) \in DOMAIN packages
                THEN packages[package_name(n)]
                ELSE mp - 1]
    ELSE random_methods(G, mp, draws)

\* Cargo._assign_init_labels
assign_init_labels(G, strategy, mp, file, draws) ==
    IF strategy = "random_methods" THEN random_methods(G, mp, draws)
    ELSE IF strategy = "random_classes" THEN random_classes(G, mp, draws)
    ELSE IF strategy = "file" THEN via_file(G, mp, file.map, draws)
    ELSE package_names(G, mp, draws)

(***************************************************************************)
(* Propagation.                                                            *)
(***************************************************************************)
\* SDG.neighbors(n): the distinct targets of n's out-edges, by first insertion
neighbors(G, n) ==
    LET first == {i \in DOMAIN G.edges :
                     /\ G.edges[i].source = n
                     /\ \A j \in 1..(i - 1) : ~(G.edges[j].source = n
                                                 /\ G.edges[j].target = G.edges[i].target)}
    IN [k \in 1..Cardinality(first) |->
           G.edges[CHOOSE i \in first : Cardinality({j \in first : j <= i}) = k].target]

\* variant: the weight of the last edge inserted from n to m
weight0_last(G, n, m) ==
    G.edges[CHOOSE i \in DOMAIN G.edges :
               /\ G.edges[i].source = n /\ G.edges[i].target = m
               /\ \A j \in (i + 1)..Len(G.edges) :
                     ~(G.edges[j].source = n /\ G.edges[j].target = m)].weight

\* SDG[n][m].get(0)["weight"]: the weight of the first edge inserted from n to m
weight0(G, n, m) ==
    G.edges[CHOOSE i \in DOMAIN G.edges :
               /\ G.edges[i].source = n /\ G.edges[i].target = m
               /\ \A j \in 1..(i - 1) :
                     ~(G.edges[j].source = n /\ G.edges[j].target = m)].weight

\* int(weight), truncation toward zero, of a weight kept in tenths
IntOf(w) == IF w >= 0 THEN w \div 10 ELSE -((-w) \div 10)

\* [x] * k: empty when k <= 0
Repeat(x, k) == [i \in 1..k |-> x]

\* labels_list after the first k neighbours of n have been read
RECURSIVE labels_list(_, _, _, _, _)
labels_list(G, part, n, nbrs, k) ==
    IF k = 0 THEN <<>>
    ELSE labels_list(G, part, n, nbrs, k - 1)
         \o Repeat(part[nbrs[k]], IntOf(weight0(G, n, nbrs[k])))

Count(list, x) == Cardinality({i \in DOMAIN list : list[i] = x})

\* statistics.mode: the most common value, the first encountered among ties
mode(list) ==
    list[CHOOSE i \in DOMAIN list :
            /\ \A j \in DOMAIN list : Count(list, list[j]) <= Count(list, list[i])
            /\ \A j \in 1..(i - 1) : Count(list, list[j]) < Count(list, list[i])]

\* variant: in-neighbours vote as well (edges read in both directions)
new_label_undirected(G, part, n) ==
    LET H == CHOOSE U \in {[G EXCEPT !.edges = G.edges \o
                 [i \in DOMAIN G.edges |-> [source |-> G.edges[i].target,
                                            target |-> G.edges[i].source,
                                            weight |-> G.edges[i].weight]]]} : TRUE
    IN CHOOSE new \in {IF list # <<>> THEN mode(list) ELSE part[n] :
                          list \in {labels_list(H, part, n, nbrs, Len(nbrs)) :
                                       nbrs \in {neighbors(H, n)}}} : TRUE

\* variant: without the "if labels_list" guard a node without votes is unset
new_label_unguarded(G, part, n) ==
    CHOOSE new \in {IF list # <<>> THEN mode(list) ELSE None :
                       list \in {labels_list(G, part, n, nbrs, Len(nbrs)) :
                                    nbrs \in {neighbors(G, n)}}} : TRUE

\* the label node n holds after being visited (lines 220-231); the singleton
\* sets name the intermediate values nbrs and list
new_label(G, part, n) ==
    CHOOSE new \in {IF list # <<>> THEN mode(list) ELSE part[n] :
                       list \in {labels_list(G, part, n, nbrs, Len(nbrs)) :
                                    nbrs \in {neighbors(G, n)}}} : TRUE

\* random.shuffle: every permutation of the node list
Shuffles(ns) ==
    {s \in [1..Len(ns) -> Range(ns)] : \A i, j \in 1..Len(ns) : s[i] = s[j] => i = j}

\* variant: an iteration cap, the loop is left after three passes at the latest
LoopExit_Capped(c) == c = 0 \/ passes >= 3

\* variant: leave the loop although one label still changed
LoopExit_AtMostOne(c) == c <= 1

\* the loop condition of _propogate_labels: leave when a pass changed nothing
LoopExit(c) == c = 0

(***************************************************************************)
(* Actions.                                                                *)
(***************************************************************************)
\* Cargo.__init__ -> json2nx
Build ==
    /\ pc = "json2nx"
    /\ LET r == json2nx(json_graph)
       IN /\ SDG' = r.SDG
          /\ nodes_dict' = r.nodes_dict
          /\ partition' = [n \in Range(r.SDG.nodes) |-> None]
    /\ pc' = "seed"
    /\ UNCHANGED <<json_graph, init_labels, max_part, labels_file, nodes, idx,
                   changes, passes, calls, seeded, returned>>

\* Cargo.execute -> _assign_init_labels; without a labels file the "file"
\* strategy raises and the run ends here
Seed ==
    /\ pc = "seed"
    /\ init_labels = "file" => labels_file.present
    /\ \E draws \in [1..Len(SDG.nodes) -> 1..Max2(max_part, 1)] :
          partition' = assign_init_labels(SDG, init_labels, max_part, labels_file, draws)
    /\ seeded' = partition'
    /\ pc' = "pass"
    /\ calls' = 1
    /\ UNCHANGED <<json_graph, nodes_dict, SDG, init_labels, max_part, labels_file,
                   nodes, idx, changes, passes, returned>>

\* head of the while loop: changes = 0, nodes shuffled
BeginPass ==
    /\ pc = "pass"
    /\ changes' = 0
    /\ nodes' \in Shuffles(SDG.nodes)
    /\ idx' = 1
    /\ passes' = IF passes < MaxPasses THEN passes + 1 ELSE passes
    /\ pc' = "visit"
    /\ UNCHANGED <<json_graph, nodes_dict, SDG, partition, init_labels, max_part,
                   labels_file, calls, seeded, returned>>

\* one iteration of "for node in nodes"
Visit ==
    /\ pc = "visit"
    /\ idx <= Len(nodes)
    /\ LET node == nodes[idx]
           new == new_label(SDG, partition, node)
       IN IF new # partition[node]
          THEN /\ partition' = [partition EXCEPT ![node] = new]
               /\ changes' = changes + 1
          ELSE UNCHANGED <<partition, changes>>
    /\ idx' = idx + 1
    /\ UNCHANGED <<json_graph, nodes_dict, SDG, init_labels, max_part, labels_file,
                   pc, nodes, passes, calls, seeded, returned>>

\* end of the for loop: leave the while loop or start another pass
EndPass ==
    /\ pc = "visit"
    /\ idx > Len(nodes)
    /\ IF LoopExit(changes)
       THEN pc' = "done" /\ returned' = partition
       ELSE pc' = "pass" /\ UNCHANGED returned
    /\ UNCHANGED <<json_graph, nodes_dict, SDG, partition, init_labels, max_part,
                   labels_file, nodes, idx, changes, passes, calls, seeded>>

\* _propogate_labels called again on the same object after it returned
CallAgain ==
    /\ pc = "done"
    /\ calls < MaxCalls
    /\ calls' = calls + 1
    /\ passes' = 0
    /\ pc' = "pass"
    /\ UNCHANGED <<json_graph, nodes_dict, SDG, partition, init_labels, max_part,
                   labels_file, nodes, idx, changes, seeded, returned>>

\* Cargo.execute, and further calls of _propogate_labels
Execute == Seed \/ BeginPass \/ Visit \/ EndPass \/ CallAgain

Next == Build \/ Execute

(***************************************************************************)
(* Input documents and arguments.                                          *)
(***************************************************************************)
Rec(i, c, t) == [id |-> i, class |-> c, type |-> t]
Link(s, t, w) == [source |-> s, target |-> t, weight |-> w]
NoFile == [present |-> FALSE, map |-> <<>>]

InitWith(doc, strategy, mp, file) ==
    /\ json_graph = doc
    /\ init_labels = strategy
    /\ max_part = mp
    /\ labels_file = file
    /\ nodes_dict = <<>>
    /\ SDG = EmptyGraph
    /\ partition = <<>>
    /\ pc = "json2nx"
    /\ nodes = <<>>
    /\ idx = 1
    /\ changes = 0
    /\ passes = 0
    /\ calls = 0
    /\ seeded = <<>>
    /\ returned = <<>>

\* the state after Cargo(doc) has been constructed, before execute is called
Constructed(doc, strategy, mp, file) ==
    /\ json_graph = doc
    /\ init_labels = strategy
    /\ max_part = mp
    /\ labels_file = file
    /\ nodes_dict = json2nx(doc).nodes_dict
    /\ SDG = json2nx(doc).SDG
    /\ partition = [n \in Range(json2nx(doc).SDG.nodes) |-> None]
    /\ pc = "seed"
    /\ nodes = <<>>
    /\ idx = 1
    /\ changes = 0
    /\ passes = 0
    /\ calls = 0
    /\ seeded = <<>>
    /\ returned = <<>>

n1 == <<1>>
n2 == <<2>>
n3 == <<3>>
n4 == <<4>>

ThreeNodes == <<Rec(n1, "A", "method"), Rec(n2, "A", "method"), Rec(n3, "B", "method")>>

Weights == {5, 10, 20, 30}

Pairs == {p \in {n1, n2, n3} \X {n1, n2, n3} : p[1] # p[2]}

\* link lists: up to two arbitrary edges, parallel edges next to a second
\* neighbour, and weighted 3-cycles
LinkLists ==
    {<<>>}
    \cup {<<Link(p[1], p[2], w)>> : p \in Pairs, w \in {5, 10}}
    \cup {<<Link(p[1], p[2], 10), Link(q[1], q[2], w)>> : p \in Pairs, q \in Pairs, w \in {10, 20}}
    \cup {<<Link(n1, n2, w[1]), Link(n1, n2, w[2]), Link(n1, n3, w[3]), Link(n3, n1, 10)>> :
             w \in Weights \X Weights \X Weights}
    \cup {<<Link(n1, n2, w[1]), Link(n2, n3, 10), Link(n3, n1, w[2]), Link(n2, n2, 10)>> :
             w \in {10, 20} \X {5, 10}}

Init ==
    \E ll \in LinkLists, mp \in {2, 3} :
        Constructed([nodes |-> ThreeNodes, links |-> ll], "random_methods", mp, NoFile)

Spec == Init /\ [][Execute]_vars

(***************************************************************************)
(* Properties of propagation.                                              *)
(***************************************************************************)
Propagating == pc \in {"pass", "visit", "done"}

VisitStep == pc = "visit" /\ idx <= Len(nodes)

LabelsOf(part) == {part[n] : n \in DOMAIN part}

\* indices of the key-0 edges leaving n: the first edge of n to each target
Key0Edges(n) ==
    {i \in DOMAIN SDG.edges :
        /\ SDG.edges[i].source = n
        /\ \A j \in 1..(i - 1) : ~(SDG.edges[j].source = n
                                    /\ SDG.edges[j].target = SDG.edges[i].target)}

RECURSIVE SumVotes(_)
SumVotes(I) ==
    IF I = {} THEN 0
    ELSE LET i == CHOOSE x \in I : TRUE
         IN (SDG.edges[i].weight \div 10) + SumVotes(I \ {i})

\* votes node n receives for label L under the labelling part
Votes(part, n, L) == SumVotes({i \in Key0Edges(n) : part[SDG.edges[i].target] = L})

StrictWinner(part, n, L) ==
    \A K \in LabelsOf(part) \ {L} : Votes(part, n, K) < Votes(part, n, L)

\* C2: once _propogate_labels has returned, a further call leaves every node's
\* partition as it was at the return, whatever orders the further call draws.
C2_Idempotent == calls >= 2 => partition = returned

C2_Witness ==
    /\ calls = 2 /\ pc = "done"
    /\ returned # seeded
    /\ Len(SDG.edges) >= 2

\* C3: visiting node n, every out-neighbour m gives int(weight of the key-0
\* edge n->m) votes to m's label; a label with strictly more votes than every
\* other is n's partition after the visit, and with no vote at all n's
\* partition is unchanged.
C3_WeightedVote ==
    [][VisitStep =>
          LET n == nodes[idx]
          IN /\ \A L \in LabelsOf(partition) :
                   (Votes(partition, n, L) > 0 /\ StrictWinner(partition, n, L))
                      => partition'[n] = L
             /\ (\A L \in LabelsOf(partition) : Votes(partition, n, L) = 0)
                   => partition'[n] = partition[n]]_vars

\* the node visited last adopted a strict winner against a competing label
C3_Witness ==
    /\ pc = "visit" /\ idx > 1
    /\ LET n == nodes[idx - 1]
       IN /\ partition[n] # seeded[n]
          /\ StrictWinner(partition, n, partition[n])
          /\ \E K \in LabelsOf(partition) \ {partition[n]} : Votes(partition, n, K) > 0
          /\ \E i \in DOMAIN SDG.edges : i \notin Key0Edges(n) /\ SDG.edges[i].source = n

OutTargets(n) == {SDG.edges[i].target : i \in {j \in DOMAIN SDG.edges : SDG.edges[j].source = n}}

NoVotingOutEdge(n) ==
    \A i \in DOMAIN SDG.edges : SDG.edges[i].source = n => SDG.edges[i].weight < 10

\* C9: only out-neighbours vote.  A node without an out-edge of weight >= 1
\* keeps its seeded partition throughout propagation, and the partition a
\* visited node gets is the same under every labelling that agrees with the
\* current one on the node itself and on the targets of its out-edges.
C9_SinkKeepsSeed ==
    Propagating =>
        \A n \in Range(SDG.nodes) : NoVotingOutEdge(n) => partition[n] = seeded[n]

C9_VisitFrame ==
    VisitStep =>
        LET n == nodes[idx]
        IN /\ partition'[n] \in {partition[n]} \cup {partition[m] : m \in OutTargets(n)}
           /\ \A alt \in [Range(SDG.nodes) -> LabelsOf(seeded)] :
                 (\A m \in OutTargets(n) \cup {n} : alt[m] = partition[m])
                    => new_label(SDG, alt, n) = partition'[n]

C9_OnlyOutNeighbours == []C9_SinkKeepsSeed /\ [][C9_VisitFrame]_vars

\* a node with in-edges only whose in-neighbours carry another label, after a pass
C9_Witness ==
    /\ pc = "done"
    /\ \E n \in Range(SDG.nodes) :
          /\ OutTargets(n) = {}
          /\ \E i \in DOMAIN SDG.edges :
                /\ SDG.edges[i].target = n /\ SDG.edges[i].weight >= 10
                /\ seeded[SDG.edges[i].source] # seeded[n]
                /\ partition[SDG.edges[i].source] = partition[n]

\* C10: during propagation every node holds a label, that label is one of the
\* labels present right after seeding, and no step adds a label to those in use.
C10_Closed ==
    Propagating =>
        \A n \in Range(SDG.nodes) :
            partition[n] # None /\ partition[n] \in LabelsOf(seeded)

C10_Shrinks == Propagating => LabelsOf(partition') \subseteq LabelsOf(partition)

C10_LabelClosure == []C10_Closed /\ [][C10_Shrinks]_vars

C10_Witness ==
    /\ pc = "done"
    /\ LabelsOf(partition) # LabelsOf(seeded)
    /\ Cardinality(LabelsOf(seeded)) = 3

(***************************************************************************)
(* The chain n1 -> n2 -> n3 -> n4, every weight 5, seeded by               *)
(* random_methods with max_part = 2.                                       *)
(***************************************************************************)
ChainDoc ==
    [nodes |-> <<Rec(n1, "A", "method"), Rec(n2, "A", "method"),
                 Rec(n3, "B", "method"), Rec(n4, "B", "method")>>,
     links |-> <<Link(n1, n2, 50), Link(n2, n3, 50), Link(n3, n4, 50)>>]

InitChain == Constructed(ChainDoc, "random_methods", 2, NoFile)

SpecChain == InitChain /\ [][Execute]_vars

\* the program is single-threaded and runs every step to completion
FairChain == SpecChain /\ WF_vars(Execute)

C1_Bounded ==
    /\ passes <= Len(ChainDoc.nodes)
    /\ pc = "done" => (changes = 0 /\ LabelsOf(partition) \subseteq {1, 2})

\* C1: on the chain, whatever order each pass draws, propagation returns, after
\* a pass without a change, and never starts a fifth pass.
C1_ChainConverges == []C1_Bounded /\ <>(pc = "done")

\* the slowest case: the fourth pass of the first call was needed
C1_Witness == pc = "done" /\ calls = 1 /\ passes = 4 /\ returned # seeded

(***************************************************************************)
(* The cycle n1 -> n2 -> n3 -> n1 when every pass happens to draw the      *)
(* order n1, n2, n3 (one of the outcomes of random.shuffle).               *)
(***************************************************************************)
BeginPassInOrder ==
    /\ pc = "pass"
    /\ changes' = 0
    /\ nodes' = SDG.nodes
    /\ idx' = 1
    /\ passes' = IF passes < MaxPasses THEN passes + 1 ELSE passes
    /\ pc' = "visit"
    /\ UNCHANGED <<json_graph, nodes_dict, SDG, partition, init_labels, max_part,
                   labels_file, calls, seeded, returned>>

ExecuteInOrder == Seed \/ BeginPassInOrder \/ Visit \/ EndPass \/ CallAgain

InitCycle ==
    \E w \in {10, 20} \X {10, 20} \X {10, 20} :
        Constructed([nodes |-> ThreeNodes,
                     links |-> <<Link(n1, n2, w[1]), Link(n2, n3, w[2]), Link(n3, n1, w[3])>>],
                    "random_methods", 3, NoFile)

SpecCycle == InitCycle /\ [][ExecuteInOrder]_vars

\* C8: there is no iteration cap; on the cycle seeded with different labels on
\* n2 and n3 (three distinct labels included) and visited in the order
\* n1, n2, n3 in every pass, every pass ends with a change and
\* _propogate_labels never returns.
C8_NeverReturns ==
    (Propagating /\ seeded[n2] # seeded[n3]) =>
        /\ pc # "done"
        /\ (pc = "visit" /\ idx > Len(nodes)) => changes > 0

C8_Witness ==
    /\ pc = "visit" /\ idx > Len(nodes) /\ passes >= 5
    /\ changes > 0
    /\ Cardinality(LabelsOf(seeded)) = 3

(***************************************************************************)
(* Construction from documents with repeated node ids, self-loops and      *)
(* edges to nodes the node list does not name.                             *)
(***************************************************************************)
Records == {Rec(i, c, t) : i \in {n1, n2}, c \in {"A", "B"}, t \in {"method", Absent}}

NodeLists == {<<a, b>> : a \in Records, b \in Records}
             \cup {<<a, b, c>> : a \in Records, b \in Records, c \in Records}

BuildLinks == {<<>>,
               <<Link(n1, n1, 10), Link(n1, n2, 10)>>,
               <<Link(n2, n3, 10), Link(n2, n1, 20), Link(n2, n3, 5)>>}

InitBuild ==
    \E nl \in NodeLists, ll \in BuildLinks :
        InitWith([nodes |-> nl, links |-> ll], "random_methods", 1, NoFile)

SpecBuild == InitBuild /\ [][Next]_vars

Built == pc # "json2nx"

\* the first record of the node list that carries id i
FirstRecord(i) ==
    json_graph.nodes[CHOOSE k \in DOMAIN json_graph.nodes :
                        /\ json_graph.nodes[k].id = i
                        /\ \A j \in 1..(k - 1) : json_graph.nodes[j].id # i]

\* C5: after json2nx an id that occurs in the node list, once or several times
\* at any positions, is exactly one graph node, and its attributes and its
\* nodes_dict entry are those of the first record with that id.
C5_FirstOccurrenceWins ==
    Built =>
        \A i \in {json_graph.nodes[k].id : k \in DOMAIN json_graph.nodes} :
            /\ Cardinality({k \in DOMAIN SDG.nodes : SDG.nodes[k] = i}) = 1
            /\ SDG.attr[i] = NodeAttr(FirstRecord(i))
            /\ nodes_dict[i] = FirstRecord(i)

(***************************************************************************)
(* Seeding: the four strategies on three nodes a.C.m, b.C.m, ... whose     *)
(* packages and classes vary.                                              *)
(***************************************************************************)
Packages == {<<>>, <<1>>, <<2>>, <<1, 1>>, <<1, 2>>, <<2, 1>>, <<1, 1, 2>>}

\* the node of package p at position k: class segment 3, member segment 3 + k
NodeOf(p, k) == p \o <<3, 3 + k>>

SeedDoc(p, c) ==
    [nodes |-> <<Rec(NodeOf(p[1], 1), c[1], "method"), Rec(NodeOf(p[2], 2), c[2], "method"),
                 Rec(NodeOf(p[3], 3), c[3], "method")>>,
     links |-> <<Link(NodeOf(p[1], 1), NodeOf(p[2], 2), 10),
                 Link(NodeOf(p[3], 3), NodeOf(p[2], 2), 5)>>]

ClassLists == {<<"A", "A", "B">>, <<"A", "B", "A">>, <<"A", "B", "C">>, <<"A", "A", "A">>}

Files == {[present |-> TRUE, map |-> [c \in {"A", "B", "C"} |-> IF c = "A" THEN 5 ELSE IF c = "B" THEN 6 ELSE 7]],
          [present |-> TRUE, map |-> [c \in {"A"} |-> 0]],
          NoFile}

InitSeed ==
    \/ \E p \in Packages \X Packages \X Packages, mp \in 1..3 :
          Constructed(SeedDoc(p, <<"A", "A", "B">>), "package_names", mp, NoFile)
    \/ \E c \in ClassLists, mp \in 0..3, st \in {"random_methods", "random_classes"} :
          Constructed(SeedDoc(<<<<1>>, <<1>>, <<2>>>>, c), st, mp, NoFile)
    \/ \E c \in ClassLists, mp \in 0..3, f \in Files :
          Constructed(SeedDoc(<<<<1>>, <<1>>, <<2>>>>, c), "file", mp, f)

SpecSeed == InitSeed /\ [][Execute]_vars

\* C4: with max_part >= 2, from the end of seeding to the end of propagation
\* the nodes hold at most max_part distinct partition labels, whatever the
\* seeding strategy.
C4_AtMostMaxPart ==
    (Propagating /\ max_part >= 2) => Cardinality(LabelsOf(partition)) <= max_part

ClassOf(n) == SDG.attr[n].class

FirstOfClass(c) ==
    CHOOSE i \in DOMAIN SDG.nodes :
        /\ ClassOf(SDG.nodes[i]) = c
        /\ \A j \in 1..(i - 1) : ClassOf(SDG.nodes[j]) # c

\* C6 as stated: random_classes with max_part < 2 labels like random_methods,
\* the i-th node (from 0) gets label i and all labels differ.
C6_LikeRandomMethods ==
    (Propagating /\ init_labels = "random_classes" /\ max_part < 2) =>
        /\ \A i \in DOMAIN SDG.nodes : seeded[SDG.nodes[i]] = i - 1
        /\ \A m, n \in Range(SDG.nodes) : m # n => seeded[m] # seeded[n]

\* C6 amended: random_classes with max_part < 2 gives every node the index
\* (from 0) of the first node of its class; nodes of one class share a label,
\* nodes of different classes do not.
C6_ClassIndex ==
    (Propagating /\ init_labels = "random_classes" /\ max_part < 2) =>
        /\ \A n \in Range(SDG.nodes) : seeded[n] = FirstOfClass(ClassOf(n)) - 1
        /\ \A m, n \in Range(SDG.nodes) : (seeded[m] = seeded[n]) <=> (ClassOf(m) = ClassOf(n))

C6_Witness ==
    /\ pc = "done" /\ init_labels = "random_classes" /\ max_part < 2
    /\ \E m, n \in Range(SDG.nodes) : m # n /\ ClassOf(m) = ClassOf(n)
    /\ \E m, n \in Range(SDG.nodes) : ClassOf(m) # ClassOf(n)

PackageSet == {package_name(n) : n \in Range(SDG.nodes)}

PivotLevels ==
    {d \in {level_depth(p) : p \in PackageSet} :
        Cardinality({p \in PackageSet : level_depth(p) = d}) >= max_part - 1}

Pivot == CHOOSE d \in PivotLevels : \A e \in PivotLevels : d <= e

HierarchicalSeeding ==
    /\ Propagating /\ init_labels = "package_names" /\ max_part >= 2
    /\ Cardinality(PackageSet) >= max_part
    /\ PivotLevels # {}

AtPivot == {p \in PackageSet : level_depth(p) = Pivot}

\* position (from 1) of the first node of package p
FirstOfPackage(p) ==
    CHOOSE i \in DOMAIN SDG.nodes :
        /\ package_name(SDG.nodes[i]) = p
        /\ \A j \in 1..(i - 1) : package_name(SDG.nodes[j]) # p

\* C7 as stated: under hierarchical seeding the nodes of the k-th package
\* (from 0, in ascending package-name order) at the pivot depth get
\* k mod (max_part - 1).
C7_ByName ==
    HierarchicalSeeding =>
        \A n \in Range(SDG.nodes) :
            package_name(n) \in AtPivot =>
                seeded[n] = Cardinality({q \in AtPivot : LexLess(q, package_name(n))})
                               % (max_part - 1)

\* C7 amended: the packages at the pivot depth are taken in the order of their
\* first node in the graph, the k-th (from 0) gets k mod (max_part - 1), which
\* lies in 0..max_part - 2.
C7_ByFirstAppearance ==
    HierarchicalSeeding =>
        \A n \in Range(SDG.nodes) :
            package_name(n) \in AtPivot =>
                /\ seeded[n] = Cardinality({q \in AtPivot :
                                   FirstOfPackage(q) < FirstOfPackage(package_name(n))})
                                  % (max_part - 1)
                /\ seeded[n] \in 0..(max_part - 2)

\* two packages at the pivot depth appear against the name order and get
\* different ids
C7_Witness ==
    /\ HierarchicalSeeding /\ pc = "done" /\ max_part = 3
    /\ \E p, q \in AtPivot :
          /\ LexLess(p, q) /\ FirstOfPackage(q) < FirstOfPackage(p)
          /\ \E m, n \in Range(SDG.nodes) :
                package_name(m) = p /\ package_name(n) = q /\ seeded[m] # seeded[n]

====
